---- MODULE Spec2Model ----
(***************************************************************************)
(* Model of src/main.cpp: the little-endian primitive codec, the scalar    *)
(* types IntegerType / FloatType / StringType, the recursive VectorType,   *)
(* the tagged union Any and the container Serializator, together with the  *)
(* driver main() that decodes a file and re-encodes the result.            *)
(*                                                                         *)
(* A uint64_t is held as four 16-bit limbs, least significant first, so    *)
(* that values up to 2^64-1 (and the sign bit int64_t sees) are exact.     *)
(* A buffer is a sequence of bytes 0..255; a cursor is a 0-based offset.   *)
(***************************************************************************)
EXTENDS Integers, Sequences, FiniteSets, TLC

(* ------------------------------ bounds --------------------------------- *)
\* number of chunks (one 8-byte word or one raw byte) in a file read by main
MaxChunks == 4
\* number of Any nodes (scalars and vectors, nested ones included) pushed
MaxAnys == 3

(* --------------------------- primitive codec --------------------------- *)
SizeofU64 == 8
LimbBase == 256 * 256
SignLimb == LimbBase \div 2

Zero64 == <<0, 0, 0, 0>>
\* static_cast<uint64_t>(n) of a small non-negative size or enum code
U64(n) == <<n % LimbBase, n \div LimbBase, 0, 0>>
\* 2^63: the smallest value whose int64_t reading is negative
Pow63 == <<0, 0, 0, SignLimb>>

\* value & 0xFF
LowByte(value) == value[1] % 256
\* value >>= 8
ShiftRight8(value) ==
    << (value[1] \div 256) + (value[2] % 256) * 256,
       (value[2] \div 256) + (value[3] % 256) * 256,
       (value[3] \div 256) + (value[4] % 256) * 256,
       value[4] \div 256 >>
RECURSIVE toLE(_, _)
toLE(value, n) ==
    IF n = 0 THEN <<>>
    ELSE <<LowByte(value)>> \o toLE(ShiftRight8(value), n - 1)

toLittleEndian(value) == toLE(value, SizeofU64)

\* data[i] for the 0-based offset i; a read at or past the end of the buffer
\* is out of bounds and is recorded by the caller's high-water mark
ByteAt(data, i) == IF i >= 0 /\ i < Len(data) THEN data[i + 1] ELSE 255

\* for (i = 0; i < sizeof(T); ++i) result |= static_cast<T>(data[i]) << (i * 8);
\* limb k of the result is bits 16(k-1) .. 16k-1: the byte i = 2(k-1) shifted
\* to the limb's low half and the byte i + 1 shifted to its high half
fromLE(data, off, k) ==
    ByteAt(data, off + 2 * (k - 1)) + 256 * ByteAt(data, off + 2 * (k - 1) + 1)

fromLittleEndian(data, off) ==
    << fromLE(data, off, 1), fromLE(data, off, 2),
       fromLE(data, off, 3), fromLE(data, off, 4) >>

\* a uint64_t too large for any buffer offset of the model (>= 2^31)
Big(u) == u[4] > 0 \/ u[3] > 0 \/ u[2] >= SignLimb
ToNat(u) == u[1] + u[2] * LimbBase

\* (variant: only an exhausted buffer, begin == end, is refused)
NotEnough_EmptyOnly(d) == d = 0
\* std::distance(begin, end) < sizeof(uint64_t): the signed distance is
\* converted to unsigned, so a negative distance compares as huge
NotEnough(d) == d >= 0 /\ d < SizeofU64

\* std::distance(begin, end) < static_cast<int64_t>(size), for d >= 0:
\* a size of 2^63 or more reads as negative and is never greater
SignedLess(d, size) ==
    IF size[4] >= SignLimb THEN FALSE
    ELSE Big(size) \/ d < ToNat(size)

\* i < size on uint64_t
LoopCond(i, size) == Big(size) \/ i < ToNat(size)

\* std::string::assign(s, n) throws std::length_error when n > max_size();
\* max_size() is below 2^63 in every implementation
ExceedsMaxSize(size) == size[4] >= SignLimb

Max(a, b) == IF a > b THEN a ELSE b

(* ------------------------------ values --------------------------------- *)
TypeIds == <<"Uint", "Float", "String", "Vector">>
\* static_cast<uint64_t>(TypeId::X): enumerators count from 0
TypeIdCode(t) == (CHOOSE k \in 1..4 : TypeIds[k] = t) - 1

\* (variant: the switch looks at the low 16 bits of the code only)
TypeIdOf_LowBits(raw) ==
    IF raw[1] \in 0..3 THEN TypeIds[raw[1] + 1] ELSE "Unknown"
\* static_cast<TypeId>(raw) as dispatched by the switch of Any::deserialize:
\* all 64 bits of the code are compared
TypeIdOf(raw) ==
    IF raw[4] = 0 /\ raw[3] = 0 /\ raw[2] = 0 /\ raw[1] \in 0..3
    THEN TypeIds[raw[1] + 1]
    ELSE "Unknown"

\* the variant held by Any::payload_; unused fields keep a fixed default
IntegerType(value) == [t |-> "Uint", n |-> value, s |-> <<>>, e |-> <<>>]
FloatType(bits) == [t |-> "Float", n |-> bits, s |-> <<>>, e |-> <<>>]
StringType(value) == [t |-> "String", n |-> Zero64, s |-> value, e |-> <<>>]
VectorType(elements) == [t |-> "Vector", n |-> Zero64, s |-> <<>>, e |-> elements]


(* ----------------------------- encoding -------------------------------- *)
\* An encoding outcome: the buffer so far, or an exception in flight.
Appended(o, bytes) == [thrown |-> FALSE, buf |-> o.buf \o bytes]
Thrown(o) == [thrown |-> TRUE, buf |-> o.buf]

\* bytes lying between two live 8-byte heap blocks (allocator bookkeeping)
HeapGap == toLittleEndian(U64(33))

\* Any::serialize writes the tag with
\*   buffer.insert(buffer.end(), toLittleEndian(c).begin(), toLittleEndian(c).end())
\* where the two calls build two distinct temporary vectors: the iterator
\* pair does not delimit one range, which is undefined behaviour.  The
\* outcomes: the 8 tag bytes alone; everything from the first temporary's
\* storage up to the end of the second (tag, heap bytes, tag) when the second
\* lies above the first; std::length_error from a negative distance when it
\* lies below.
InsertTag(o, code) ==
    LET le == toLittleEndian(U64(code)) IN
    { Appended(o, le), Appended(o, le \o HeapGap \o le), Thrown(o) }

IntegerType_serialize(o, v) == Appended(o, toLittleEndian(v.n))

\* the double is passed as its 64-bit pattern, which is what v.n holds
FloatType_serialize(o, v) == Appended(o, toLittleEndian(v.n))

StringType_serialize(o, v) ==
    Appended(Appended(o, toLittleEndian(U64(Len(v.s)))), v.s)

RECURSIVE Any_serialize(_, _), SerializeEach(_, _)

\* for (const auto& element : elements) element.serialize(buffer);
SerializeEach(o, elements) ==
    IF o.thrown \/ elements = <<>> THEN {o}
    ELSE UNION { SerializeEach(o2, Tail(elements))
                 : o2 \in Any_serialize(o, Head(elements)) }

VectorType_serialize(o, v) ==
    SerializeEach(Appended(o, toLittleEndian(U64(Len(v.e)))), v.e)

Any_serialize(o, a) ==
    UNION { IF o2.thrown THEN {o2}
            ELSE CASE a.t = "Uint" -> {IntegerType_serialize(o2, a)}
                   [] a.t = "Float" -> {FloatType_serialize(o2, a)}
                   [] a.t = "String" -> {StringType_serialize(o2, a)}
                   [] a.t = "Vector" -> VectorType_serialize(o2, a)
            : o2 \in InsertTag(o, TypeIdCode(a.t)) }

\* Serializator::serialize(): the set of outcomes of one call
Serializator_serialize(storage) ==
    SerializeEach(Appended([thrown |-> FALSE, buf |-> <<>>],
                           toLittleEndian(U64(Len(storage)))),
                  storage)

(* ----------------------------- decoding -------------------------------- *)
\* What one deserialize call hands back: st = "ok" with the value and the
\* returned cursor, "vec" when a Vector's count was read and its element loop
\* is to run, "err" with the exception thrown.  hi is one past the last
\* buffer offset read when the call ends (the cursor it was given when it read
\* nothing: the caller has read everything before it), at is the cursor where
\* the exception was raised.
Ok(value, cursor, hi) ==
    [st |-> "ok", err |-> "none", val |-> value, pos |-> cursor,
     hi |-> hi, size |-> Zero64, at |-> 0]
Err(kind, cursor, hi) ==
    [st |-> "err", err |-> kind, val |-> IntegerType(Zero64), pos |-> cursor,
     hi |-> hi, size |-> Zero64, at |-> cursor]
Enter(size, cursor, hi) ==
    [st |-> "vec", err |-> "none", val |-> VectorType(<<>>), pos |-> cursor,
     hi |-> hi, size |-> size, at |-> 0]

\* (variant: the cursor returned is advanced by half the field)
IntegerType_deserialize_Half(b, begin) ==
    IF NotEnough(Len(b) - begin) THEN Err("Truncated", begin, begin)
    ELSE Ok(IntegerType(fromLittleEndian(b, begin)),
            begin + SizeofU64 \div 2, begin + SizeofU64)
IntegerType_deserialize(b, begin) ==
    IF NotEnough(Len(b) - begin) THEN Err("Truncated", begin, begin)
    ELSE Ok(IntegerType(fromLittleEndian(b, begin)),
            begin + SizeofU64, begin + SizeofU64)

FloatType_deserialize(b, begin) ==
    IF NotEnough(Len(b) - begin) THEN Err("Truncated", begin, begin)
    ELSE Ok(FloatType(fromLittleEndian(b, begin)),
            begin + SizeofU64, begin + SizeofU64)

\* value_.assign(&(*begin), size) copies size bytes from the cursor; with
\* size = 0 nothing is read, also when the cursor stands at the end
StringType_deserialize(b, begin) ==
    IF NotEnough(Len(b) - begin) THEN Err("Truncated", begin, begin)
    ELSE LET size == fromLittleEndian(b, begin)
             begin2 == begin + SizeofU64
         IN  IF SignedLess(Len(b) - begin2, size)
             THEN Err("Truncated", begin2, begin2)
             ELSE IF ExceedsMaxSize(size)
             THEN Err("LengthError", begin2, begin2)
             ELSE Ok(StringType(SubSeq(b, begin2 + 1, begin2 + ToNat(size))),
                     begin2 + ToNat(size), begin2 + ToNat(size))

\* VectorType::deserialize up to its loop: the count is read, elements_ cleared
VectorType_deserialize(b, begin) ==
    IF NotEnough(Len(b) - begin) THEN Err("Truncated", begin, begin)
    ELSE Enter(fromLittleEndian(b, begin), begin + SizeofU64, begin + SizeofU64)

Any_deserialize(b, begin) ==
    IF NotEnough(Len(b) - begin) THEN Err("Truncated", begin, begin)
    ELSE LET typeId == TypeIdOf(fromLittleEndian(b, begin))
             begin2 == begin + SizeofU64
         IN  CASE typeId = "Uint" -> IntegerType_deserialize(b, begin2)
               [] typeId = "Float" -> FloatType_deserialize(b, begin2)
               [] typeId = "String" -> StringType_deserialize(b, begin2)
               [] typeId = "Vector" -> VectorType_deserialize(b, begin2)
               [] OTHER -> Err("UnknownTag", begin2, begin2)

(* ------------------------------ inputs --------------------------------- *)
\* the scalars pushed: Integer(5), Float(1.0) as its bit pattern, String("x")
Scalars ==
    { IntegerType(U64(5)), FloatType(<<0, 0, 0, 16368>>), StringType(<<120>>) }

RECURSIVE NodeCount(_), NodesOf(_)
\* the number of Any objects in a value, nested elements included
NodeCount(a) == 1 + NodesOf(a.e)
NodesOf(elements) ==
    IF elements = <<>> THEN 0
    ELSE NodeCount(Head(elements)) + NodesOf(Tail(elements))

RECURSIVE Trees(_), Forests(_)
\* the Any values of at most n nodes, and the sequences of them
Trees(n) ==
    IF n = 0 THEN {}
    ELSE Scalars \cup { VectorType(f) : f \in Forests(n - 1) }
Forests(n) ==
    {<<>>} \cup UNION { { <<a>> \o f : f \in Forests(n - NodeCount(a)) }
                        : a \in Trees(n) }

\* the 8-byte words a file is made of: the four tags, an unknown tag, small
\* counts and lengths, and 2^63 (a count, a length or a tag with its low
\* bytes zero)
Words == { U64(k) : k \in 0..4 } \cup { Pow63 }
Chunks == { toLittleEndian(w) : w \in Words } \cup { <<97>> }

RECURSIVE Buffers(_)
Buffers(n) ==
    IF n = 0 THEN {<<>>}
    ELSE LET S == Buffers(n - 1) IN S \cup { b \o c : b \in S, c \in Chunks }

FileContents == Buffers(MaxChunks)

(* ------------------------------- state --------------------------------- *)
VARIABLES
    storage_,   \* Serializator::storage_
    origin,     \* "none", "push" (values were pushed and serialized) or "file"
    out,        \* the outcome of the last Serializator::serialize()
    buff,       \* the buffer handed to Serializator::deserialize
    pc,         \* "start", "serialized", "threw", "decoding", "done", "failed", "reencoded"
    pos,        \* the cursor `begin`, as an offset into buff
    stack,      \* the active element loops: Serializator::deserialize, then one per open VectorType::deserialize
    err,        \* the exception that ended the decode, or "none"
    result,     \* what Serializator::deserialize returned
    hiRead,     \* one past the highest buffer offset read so far
    hist        \* history: calls made, deepest nesting, where the exception was raised

vars == <<storage_, origin, out, buff, pc, pos, stack, err, result, hiRead, hist>>

NoResult == [returned |-> FALSE, value |-> <<>>]
NoOutcome == [thrown |-> FALSE, buf |-> <<>>]
NoHist == [calls |-> 0, maxDepth |-> 0, errDepth |-> 0, errDone |-> 0, errAt |-> 0]

Frame(kind, size, start) ==
    [kind |-> kind, size |-> size, i |-> 0, elems |-> <<>>, start |-> start]

Top == stack[Len(stack)]

\* elements_.push_back(any) / result.push_back(any), then ++i
Pushed(stk, any) ==
    [stk EXCEPT ![Len(stk)] = [@ EXCEPT !.elems = Append(@, any), !.i = @ + 1]]

\* (variant: the outermost loop catches the exception and returns what it has)
Raise_Caught(kind, at, stk, h) ==
    [pc |-> "done", err |-> kind, stack |-> <<>>,
     result |-> [returned |-> TRUE,
                 value |-> IF stk = <<>> THEN <<>> ELSE stk[1].elems],
     hist |-> [h EXCEPT !.errDepth = Len(stk), !.errAt = at]]
\* (variant: an element loop catches the exception and tries the same element again)
Raise_Retried(kind, at, stk, h) ==
    IF stk = <<>>
    THEN [pc |-> "failed", err |-> kind, stack |-> <<>>, result |-> NoResult,
          hist |-> [h EXCEPT !.errAt = at]]
    ELSE [pc |-> "decoding", err |-> "none", stack |-> stk, result |-> NoResult,
          hist |-> [h EXCEPT !.calls = IF @ > 0 THEN @ - 1 ELSE 0]]
\* An exception leaves through every enclosing deserialize: there is no
\* try/catch, so each frame's local vector is destroyed and nothing is returned.
Raise(kind, at, stk, h) ==
    [pc |-> "failed", err |-> kind, stack |-> <<>>, result |-> NoResult,
     hist |-> [h EXCEPT !.errDepth = Len(stk),
                        !.errDone = IF stk = <<>> THEN 0 ELSE Len(stk[Len(stk)].elems),
                        !.errAt = at]]

Init ==
    /\ storage_ = <<>>
    /\ origin = "none"
    /\ out = NoOutcome
    /\ buff = <<>>
    /\ pc = "start"
    /\ pos = 0
    /\ stack = <<>>
    /\ err = "none"
    /\ result = NoResult
    /\ hiRead = 0
    /\ hist = NoHist

(* ------------------------------ actions -------------------------------- *)
\* Serializator::push(val)
push(val) ==
    /\ pc = "start"
    /\ storage_' = Append(storage_, val)
    /\ UNCHANGED <<origin, out, buff, pc, pos, stack, err, result, hiRead, hist>>

\* C.serialize() on the values pushed
serialize ==
    /\ pc = "start"
    /\ \E o \in Serializator_serialize(storage_) :
         /\ out' = o
         /\ pc' = IF o.thrown THEN "threw" ELSE "serialized"
    /\ origin' = "push"
    /\ UNCHANGED <<storage_, buff, pos, stack, err, result, hiRead, hist>>

\* Serializator::deserialize(buffer) up to its loop
Serializator_deserialize(b) ==
    /\ buff' = b
    /\ IF NotEnough(Len(b))
       THEN \E x \in {Raise("Truncated", 0, <<>>, hist)} :
            /\ pc' = x.pc /\ err' = x.err /\ stack' = x.stack
            /\ result' = x.result /\ hist' = x.hist
            /\ pos' = 0
            /\ hiRead' = 0
       ELSE /\ pc' = "decoding"
            /\ stack' = <<Frame("Container", fromLittleEndian(b, 0), 0)>>
            /\ pos' = SizeofU64
            /\ hiRead' = SizeofU64
            /\ hist' = [NoHist EXCEPT !.maxDepth = 1]
            /\ UNCHANGED <<err, result>>

\* Serializator::deserialize(C.serialize())
deserialize_serialized ==
    /\ pc = "serialized"
    /\ Serializator_deserialize(out.buf)
    /\ UNCHANGED <<storage_, origin, out>>

\* main(): raw.bin is read into buff and handed to Serializator::deserialize
main_read ==
    /\ pc = "start"
    /\ storage_ = <<>>
    /\ \E b \in FileContents : Serializator_deserialize(b)
    /\ origin' = "file"
    /\ UNCHANGED <<storage_, out>>

\* one iteration of an element loop: Any any; begin = any.deserialize(begin, end);
\* push_back(any).  For a Vector the iteration completes in vector_return.
\* (r and x are bound through singleton sets so that each call is evaluated once)
any_deserialize ==
    /\ pc = "decoding"
    /\ LoopCond(Top.i, Top.size)
    /\ \E r \in {Any_deserialize(buff, pos)} :
       /\ hiRead' = Max(hiRead, r.hi)
       /\ CASE r.st = "ok" ->
                 /\ stack' = Pushed(stack, r.val)
                 /\ pos' = r.pos
                 /\ hist' = [hist EXCEPT !.calls = @ + 1]
                 /\ UNCHANGED <<pc, err, result>>
            [] r.st = "vec" ->
                 /\ stack' = Append(stack, Frame("Vector", r.size, r.pos - SizeofU64))
                 /\ pos' = r.pos
                 /\ hist' = [hist EXCEPT !.calls = @ + 1,
                                         !.maxDepth = Max(@, Len(stack) + 1)]
                 /\ UNCHANGED <<pc, err, result>>
            [] r.st = "err" ->
                 \E x \in {Raise(r.err, r.at, stack, [hist EXCEPT !.calls = @ + 1])} :
                 /\ pc' = x.pc /\ err' = x.err /\ stack' = x.stack
                 /\ result' = x.result /\ hist' = x.hist
                 /\ pos' = pos
    /\ UNCHANGED <<storage_, origin, out, buff>>

\* VectorType::deserialize returns begin; Any::deserialize stores the vector
\* in payload_ and returns; the enclosing loop pushes it and increments i
vector_return ==
    /\ pc = "decoding"
    /\ ~LoopCond(Top.i, Top.size)
    /\ Len(stack) > 1
    /\ stack' = Pushed(SubSeq(stack, 1, Len(stack) - 1), VectorType(Top.elems))
    /\ UNCHANGED <<storage_, origin, out, buff, pc, pos, err, result, hiRead, hist>>

\* Serializator::deserialize returns result
deserialize_return ==
    /\ pc = "decoding"
    /\ ~LoopCond(Top.i, Top.size)
    /\ Len(stack) = 1
    /\ pc' = "done"
    /\ result' = [returned |-> TRUE, value |-> Top.elems]
    /\ stack' = <<>>
    /\ UNCHANGED <<storage_, origin, out, buff, pos, err, hiRead, hist>>

\* main(): Serializator s; for (auto&& i : res) s.push(i); buff == s.serialize()
main_reencode ==
    /\ pc = "done"
    /\ origin = "file"
    /\ storage_' = result.value
    /\ \E o \in Serializator_serialize(result.value) :
         /\ out' = o
         /\ pc' = IF o.thrown THEN "threw" ELSE "reencoded"
    /\ UNCHANGED <<origin, buff, pos, stack, err, result, hiRead, hist>>

Decode == any_deserialize \/ vector_return \/ deserialize_return

Next ==
    \/ /\ pc = "start"
       /\ origin = "none"
       /\ \E val \in Trees(MaxAnys - NodesOf(storage_)) : push(val)
    \/ serialize
    \/ deserialize_serialized
    \/ main_read
    \/ any_deserialize
    \/ vector_return
    \/ deserialize_return
    \/ main_reencode

Spec == Init /\ [][Next]_vars

\* a deserialize call runs to its return or its throw without being suspended
LiveSpec == Spec /\ WF_vars(Decode)

TypeOK ==
    /\ pc \in {"start", "serialized", "threw", "decoding", "done", "failed", "reencoded"}
    /\ origin \in {"none", "push", "file"}
    /\ err \in {"none", "Truncated", "UnknownTag", "LengthError"}
    /\ pos \in 0..Len(buff)
    /\ \A k \in 1..Len(buff) : buff[k] \in 0..255

(* ------------------------ definitions for the claims ------------------- *)
\* the wire format: Value := tag:u64 , Payload(tag)
RECURSIVE WireAny(_), WireEach(_)
WireAny(a) ==
    toLittleEndian(U64(TypeIdCode(a.t)))
    \o CASE a.t \in {"Uint", "Float"} -> toLittleEndian(a.n)
         [] a.t = "String" -> toLittleEndian(U64(Len(a.s))) \o a.s
         [] a.t = "Vector" -> toLittleEndian(U64(Len(a.e))) \o WireEach(a.e)
WireEach(elements) ==
    IF elements = <<>> THEN <<>>
    ELSE WireAny(Head(elements)) \o WireEach(Tail(elements))

\* the number of bytes a value occupies on the wire
RECURSIVE SizeOfAny(_), SizeOfEach(_)
SizeOfAny(a) ==
    SizeofU64 + CASE a.t \in {"Uint", "Float"} -> SizeofU64
                  [] a.t = "String" -> SizeofU64 + Len(a.s)
                  [] a.t = "Vector" -> SizeofU64 + SizeOfEach(a.e)
SizeOfEach(elements) ==
    IF elements = <<>> THEN 0
    ELSE SizeOfAny(Head(elements)) + SizeOfEach(Tail(elements))

\* an element loop is about to call Any::deserialize at the cursor
AtElement == pc = "decoding" /\ LoopCond(Top.i, Top.size)
Remaining == Len(buff) - pos
TagAhead == fromLittleEndian(buff, pos)
KnownCodes == { U64(k) : k \in 0..3 }
Finished == pc \in {"done", "failed"}

\* C1: deserialize(C.serialize()) succeeds and returns, in push order, values
\* equal to the ones pushed into C.
C1_RoundTrip ==
    origin = "push" =>
        /\ pc \notin {"threw", "failed"}
        /\ pc = "done" => result.value = storage_

\* C2: a String whose declared length exceeds the bytes left after its length
\* field fails with the truncated-input error and nothing past the end of the
\* buffer is read, for every 64-bit length.
C2_StringLengthGuard ==
    [][ ( /\ AtElement
          /\ Remaining >= 2 * SizeofU64
          /\ TagAhead = U64(TypeIdCode("String"))
          /\ LET length == fromLittleEndian(buff, pos + SizeofU64) IN
             Big(length) \/ ToNat(length) > Remaining - 2 * SizeofU64 )
        => (err' = "Truncated" /\ hiRead' <= Len(buff)) ]_vars

\* C3: a read of an 8-byte field (container count, tag, Integer or Float
\* payload, String length, Vector count) with fewer than 8 bytes left fails
\* with the truncated-input error before any byte of the field is read.
C3_FixedWidthGuard ==
    [][ /\ ( pc \in {"start", "serialized"} /\ pc' \in {"decoding", "failed"}
             /\ Len(buff') < SizeofU64 )
           => (err' = "Truncated" /\ hiRead' = 0)
        /\ (AtElement /\ Remaining < SizeofU64)
           => (err' = "Truncated" /\ pc' = "failed" /\ hiRead' = hiRead)
        /\ ( AtElement /\ Remaining >= SizeofU64 /\ Remaining < 2 * SizeofU64
             /\ TagAhead \in KnownCodes )
           => (err' = "Truncated" /\ pc' = "failed" /\ hiRead' = pos + SizeofU64)
      ]_vars

C3_Witness ==
    /\ pc = "failed" /\ err = "Truncated"
    /\ Len(buff) - hist.errAt \in 1..(SizeofU64 - 1)
    /\ hist.errAt >= 2 * SizeofU64
    /\ hiRead = hist.errAt

\* C4: a discriminant outside {0,1,2,3} with at least 8 bytes left fails with
\* the unknown-tag error whatever follows it, and no value is produced.
C4_UnknownTag ==
    [][ (AtElement /\ Remaining >= SizeofU64 /\ TagAhead \notin KnownCodes)
        => ( /\ err' = "UnknownTag" /\ pc' = "failed"
             /\ result' = NoResult /\ stack' = <<>> ) ]_vars

C4_Witness ==
    /\ pc = "failed" /\ err = "UnknownTag"
    /\ fromLittleEndian(buff, hist.errAt - SizeofU64) = Pow63
    /\ Len(buff) > hist.errAt

\* C5: a failing element decode ends the outermost call as a failure at once:
\* no frame survives, no further element is decoded and no sequence is
\* returned; a returned sequence holds exactly the declared count of elements.
C5_NoPartialResult ==
    /\ err # "none" =>
          /\ pc = "failed" /\ stack = <<>> /\ ~result.returned
          /\ ~ENABLED Decode
    /\ result.returned =>
          LET count == fromLittleEndian(buff, 0) IN
          /\ err = "none"
          /\ ~Big(count) /\ Len(result.value) = ToNat(count)

C5_Witness ==
    /\ pc = "failed" /\ ~result.returned
    /\ hist.errDepth >= 2 /\ hist.errDone >= 1

\* C6: Any::serialize appends the 8-byte little-endian code of the variant and
\* then the variant's own encoding, and nothing else.
C6_TagThenPayload ==
    (origin = "push" /\ pc \in {"serialized", "threw"}) =>
        /\ ~out.thrown
        /\ out.buf = toLittleEndian(U64(Len(storage_))) \o WireEach(storage_)

\* the deepest Vector nesting among the values the model pushes and serializes
DeepestInput == MaxAnys

\* C7: the decoder stops at a nesting limit that does not depend on the
\* buffer: it never recurses as deep as the deepest input goes.
C7_NestingGuarded == Len(stack) - 1 < DeepestInput

\* C8: every decode ends, in a returned sequence or an error, and the number
\* of Any::deserialize calls is bounded by the buffer length (each successful
\* call consumes at least a tag and a payload field).
C8_Terminates ==
    /\ [](hist.calls * 2 * SizeofU64 <= Len(buff) + SizeofU64)
    /\ (pc = "decoding") ~> Finished

C8_Witness ==
    /\ pc = "failed"
    /\ Big(fromLittleEndian(buff, 0))
    /\ hist.calls >= 2

\* C9: when deserialize(B) succeeds, pushing the decoded values into a fresh
\* Serializator and serializing it gives back exactly B.
C9_ReencodeIdentical ==
    (origin = "file" /\ pc \in {"reencoded", "threw"}) =>
        (pc = "reencoded" /\ out.buf = buff)

\* the cursor at which the element loop of frame k stands
LoopCursor(k) == IF k = Len(stack) THEN pos ELSE stack[k + 1].start - SizeofU64

CursorAccounted ==
    /\ pos <= Len(buff)
    /\ pc = "decoding" =>
          \A k \in 1..Len(stack) :
              LoopCursor(k) = stack[k].start + SizeofU64 + SizeOfEach(stack[k].elems)
    /\ pc = "done" => pos = SizeofU64 + SizeOfEach(result.value)

\* C10: the cursor never passes the end of the buffer, every element loop
\* stands exactly past its count field and the elements decoded so far, the
\* returned cursor is past exactly the values returned, and decoding leaves
\* the buffer as it was.
C10_CursorAccounting ==
    /\ []CursorAccounted
    /\ [][(pc \in {"decoding", "done", "failed"}) => (buff' = buff)]_vars

C10_Witness ==
    /\ pc = "done" /\ origin = "file"
    /\ \E k \in 1..Len(result.value) :
          result.value[k].t = "String" /\ Len(result.value[k].s) >= 1

====
